---- MODULE Spec2Model ----
(***************************************************************************)
(* Model of scripts/lib/http.py: the retry delay computation               *)
(* (_get_retry_delay), request() with its headers and its retry loop, and  *)
(* get_reddit_json; and of dedupe_websearch of scripts/lib/websearch.py.   *)
(*                                                                         *)
(* Durations are counted in ticks.  One second is TicksPerSec ticks, with  *)
(* TicksPerSec chosen so that every jitter value delay * 0.25 * r, for a   *)
(* draw r = k / JitterSteps, is a whole number of ticks.                   *)
(***************************************************************************)
EXTENDS Integers, Sequences, FiniteSets, TLC

\* ------------------------------------------------------------------ bounds
\* Largest retry budget a call is made with.
MaxRetries == 3
\* The random draw r of random.random() ranges over k / JitterSteps, k in 0..JitterSteps.
JitterSteps == 2
\* Largest attempt index _get_retry_delay is called with directly.
MaxAttempt == 1026
\* Largest number of pieces a path given to get_reddit_json is made of.
MaxParts == 3
\* Largest number of items dedupe_websearch is called with.
MaxItems == 3

\* --------------------------------------------------------------- constants
MAX_RETRIES == 3
RETRY_BASE_DELAY == 2
RETRY_429_BASE_DELAY == 5
RETRY_MAX_DELAY == 60
\* jitter = delay * 0.25 * random.random(): 0.25 is 1 / JitterDen
JitterDen == 4
\* base * (2 ** attempt) multiplies a float by an int: the int is converted to a
\* float first, and CPython raises OverflowError for an int of 2^1024 or more
\* (sys.float_info.max_exp).
FloatMaxExp == 1024

TicksPerSec == JitterDen * JitterSteps
Sec(s) == s * TicksPerSec

Min(a, b) == IF a <= b THEN a ELSE b
Max(a, b) == IF a >= b THEN a ELSE b

\* Optional[...] values: None, or a value present.
None == [some |-> FALSE, val |-> 0]
Some(v) == [some |-> TRUE, val |-> v]
NoneStr == [some |-> FALSE, val |-> ""]

\* ---------------------------------------------------------------- strings
\* A str is the sequence of its characters.
LowerLetters ==
    <<"a", "b", "c", "d", "e", "f", "g", "h", "i", "j", "k", "l", "m",
      "n", "o", "p", "q", "r", "s", "t", "u", "v", "w", "x", "y", "z">>
UpperLetters ==
    <<"A", "B", "C", "D", "E", "F", "G", "H", "I", "J", "K", "L", "M",
      "N", "O", "P", "Q", "R", "S", "T", "U", "V", "W", "X", "Y", "Z">>

\* The place of a letter in an alphabet, 0 for any other character.
IndexIn(letters, c) ==
    IF \E i \in 1..Len(letters) : letters[i] = c
    THEN CHOOSE i \in 1..Len(letters) : letters[i] = c
    ELSE 0

\* str.lower() and str.upper() of one character.
LowerChar(c) == IF IndexIn(UpperLetters, c) # 0 THEN LowerLetters[IndexIn(UpperLetters, c)] ELSE c
UpperChar(c) == IF IndexIn(LowerLetters, c) # 0 THEN UpperLetters[IndexIn(LowerLetters, c)] ELSE c

\* str.lower()
Lower(s) == [i \in 1..Len(s) |-> LowerChar(s[i])]

\* str.capitalize(): the first character upper-cased, the others lower-cased.
Capitalize(s) == [i \in 1..Len(s) |-> IF i = 1 THEN UpperChar(s[i]) ELSE LowerChar(s[i])]

\* str.startswith(prefix) and str.endswith(suffix)
StartsWith(s, prefix) ==
    Len(s) >= Len(prefix) /\ SubSeq(s, 1, Len(prefix)) = prefix
EndsWith(s, suffix) ==
    Len(s) >= Len(suffix) /\ SubSeq(s, Len(s) - Len(suffix) + 1, Len(s)) = suffix

\* str.rstrip(c) for a single character c: every trailing c removed.
RECURSIVE RStrip(_, _)
RStrip(s, c) ==
    IF s # <<>> /\ s[Len(s)] = c THEN RStrip(SubSeq(s, 1, Len(s) - 1), c) ELSE s

\* ------------------------------------------------------- _get_retry_delay
\* What a call of _get_retry_delay ends with: a returned delay, or an exception.
Returned(d) == [exc |-> "none", delay |-> d]
Raised(e) == [exc |-> e, delay |-> 0]

\* x * 2^n as far as min(., RETRY_MAX_DELAY) can tell: the doubling stops at the
\* first value above the ceiling, which stands for every larger float (inf too).
RECURSIVE ScaleByPow2(_, _)
ScaleByPow2(x, n) ==
    IF n = 0 \/ x > Sec(RETRY_MAX_DELAY) THEN x ELSE ScaleByPow2(2 * x, n - 1)

\* delay = base * (2 ** attempt), line 61.
ExpDelay(base, attempt) ==
    IF attempt >= FloatMaxExp
    THEN Raised("OverflowError")
    ELSE Returned(ScaleByPow2(Sec(base), attempt))

\* jitter = delay * 0.25 * random.random(), with the draw r = k / JitterSteps.
Jitter(delay, k) == (delay * k) \div (JitterDen * JitterSteps)

\* GetRetryDelay testing the hint for truth ("if retry_after:"): a hint of 0 is
\* taken for no hint.
GetRetryDelayTruthyHint(attempt, is_rate_limit, retry_after, k) ==
    IF retry_after.some /\ retry_after.val # 0
    THEN Returned(Min(retry_after.val, Sec(RETRY_MAX_DELAY)))
    ELSE LET base == IF is_rate_limit THEN RETRY_429_BASE_DELAY ELSE RETRY_BASE_DELAY
             exp == ExpDelay(base, attempt)
         IN  IF exp.exc # "none"
             THEN exp
             ELSE LET delay == Min(exp.delay, Sec(RETRY_MAX_DELAY))
                  IN  Returned(delay + Jitter(delay, k))

\* GetRetryDelay with one base for every error class.
GetRetryDelaySameBase(attempt, is_rate_limit, retry_after, k) ==
    IF retry_after.some
    THEN Returned(Min(retry_after.val, Sec(RETRY_MAX_DELAY)))
    ELSE LET exp == ExpDelay(RETRY_BASE_DELAY, attempt)
         IN  IF exp.exc # "none"
             THEN exp
             ELSE LET delay == Min(exp.delay, Sec(RETRY_MAX_DELAY))
                  IN  Returned(delay + Jitter(delay, k))

\* _get_retry_delay(attempt, is_rate_limit, retry_after), k the random draw.
GetRetryDelay(attempt, is_rate_limit, retry_after, k) ==
    IF retry_after.some
    THEN Returned(Min(retry_after.val, Sec(RETRY_MAX_DELAY)))
    ELSE LET base == IF is_rate_limit THEN RETRY_429_BASE_DELAY ELSE RETRY_BASE_DELAY
             exp == ExpDelay(base, attempt)
         IN  IF exp.exc # "none"
             THEN exp
             ELSE LET delay == Min(exp.delay, Sec(RETRY_MAX_DELAY))
                  IN  Returned(delay + Jitter(delay, k))

\* The Retry-After values a direct call is checked with, in ticks.
HintValues ==
    { Sec(0 - 5), 0 - 1, 0, 1, Sec(30), Sec(RETRY_MAX_DELAY) - 1, Sec(RETRY_MAX_DELAY),
      Sec(RETRY_MAX_DELAY) + 1, Sec(120) }

\* ------------------------------------------------------------- request()
\* The HTTPError exception object, lines 29-36.
HTTPError(message, status_code, body, retry_after) ==
    [message |-> message, status_code |-> status_code, body |-> body,
     retry_after |-> retry_after]

\* A formatted message: the format string and what is substituted in it.
Msg(fmt, code, arg) == [fmt |-> fmt, code |-> code, arg |-> arg]

\* Status codes urlopen raises urllib.error.HTTPError for.
Statuses == {304, 400, 404, 429, 499, 500}

\* e.reason of an HTTPError with this code.
Reason(code) ==
    CASE code = 304 -> "Not Modified"
      [] code = 400 -> "Bad Request"
      [] code = 404 -> "Not Found"
      [] code = 429 -> "Too Many Requests"
      [] code = 500 -> "Internal Server Error"
      [] OTHER -> "Unknown"

\* body of an error response: None when e.read().decode('utf-8') raises.
ErrorBodies == {NoneStr, Some("error body")}

\* e.headers.get("Retry-After"): None when the header is absent.
RetryAfterRaws ==
    {NoneStr, Some("Wed, 21 Oct 2026 07:28:00 GMT"), Some("-5"), Some("0"), Some("30"),
     Some("120")}

\* Bodies of a 2xx response, decoded.
ResponseBodies == {"", "{}", "{\"a\": 1}", "<html>"}

\* Python values json.loads returns here: a dict, as its set of items.
PyDict(items) == [type |-> "dict", items |-> items]

\* Reasons of a urllib.error.URLError, and the socket-level exception types.
URLReasons == {"timed out", "Name or service not known"}
OSErrorTypes == {"TimeoutError", "ConnectionResetError"}
\* Exceptions of an attempt that no except clause of request() names.
OtherExceptions == {"UnicodeDecodeError", "IncompleteRead"}

\* float(s): the number, in ticks, or ValueError.
Float(s) ==
    CASE s = "-5" -> Returned(Sec(0 - 5))
      [] s = "0" -> Returned(0)
      [] s = "30" -> Returned(Sec(30))
      [] s = "120" -> Returned(Sec(120))
      [] OTHER -> Raised("ValueError")

\* Lines 124-130: the Retry-After header parsed, None when absent, empty or no number.
ParseRetryAfter(retry_after_raw) ==
    IF retry_after_raw.some /\ retry_after_raw.val # ""
    THEN LET f == Float(retry_after_raw.val)
         IN  IF f.exc = "none" THEN Some(f.delay) ELSE None
    ELSE None

\* JsonLoads without the "if body else {}" of line 112: json.loads("") raises.
JsonLoadsEmptyRaises(body) ==
    CASE body = "{}" -> [exc |-> "none", value |-> PyDict({})]
      [] body = "{\"a\": 1}" -> [exc |-> "none", value |-> PyDict({<<"a", 1>>})]
      [] OTHER -> [exc |-> "JSONDecodeError", value |-> PyDict({})]

\* json.loads(body) if body else {}, line 112.
JsonLoads(body) ==
    CASE body = "" -> [exc |-> "none", value |-> PyDict({})]
      [] body = "{}" -> [exc |-> "none", value |-> PyDict({})]
      [] body = "{\"a\": 1}" -> [exc |-> "none", value |-> PyDict({<<"a", 1>>})]
      [] OTHER -> [exc |-> "JSONDecodeError", value |-> PyDict({})]

\* ------------------------------------------------- the request description
\* Line 26.
USER_AGENT == "last30days-skill/1.0 (Claude Code Skill)"

\* Header names, as the characters they are spelled with.
UserAgentKey == <<"U", "s", "e", "r", "-", "A", "g", "e", "n", "t">>
ContentTypeKey == <<"C", "o", "n", "t", "e", "n", "t", "-", "T", "y", "p", "e">>
AcceptKey == <<"A", "c", "c", "e", "p", "t">>

\* A dict of headers is the sequence of its <<key, value>> items in insertion
\* order, with no key twice.
HasKey(d, key) == \E i \in 1..Len(d) : d[i][1] = key

\* dict.setdefault(key, value)
SetDefault(d, key, value) == IF HasKey(d, key) THEN d ELSE Append(d, <<key, value>>)

\* d[key] = value
SetItem(d, key, value) ==
    IF HasKey(d, key)
    THEN [i \in 1..Len(d) |-> IF d[i][1] = key THEN <<key, value>> ELSE d[i]]
    ELSE Append(d, <<key, value>>)

\* urllib.request.Request(url, headers=headers): each item is stored with
\* add_header, under key.capitalize(), a later item replacing an earlier one
\* with the same capitalized key.
RECURSIVE AddHeaders(_, _)
AddHeaders(stored, d) ==
    IF d = <<>>
    THEN stored
    ELSE AddHeaders(SetItem(stored, Capitalize(d[1][1]), d[1][2]), Tail(d))

\* Optional[Dict[str, str]] and Optional[Dict[str, Any]] arguments that are None.
NoneDict == [some |-> FALSE, val |-> <<>>]
NoneJson == [some |-> FALSE, val |-> PyDict({})]

\* json.dumps(json_data), line 97.
JsonDumps(value) ==
    IF value = PyDict({}) THEN "{}"
    ELSE IF value = PyDict({<<"a", 1>>}) THEN "{\"a\": 1}"
    ELSE "null"

\* The headers argument of the calls made: absent, empty, the caller's own
\* client agent under the name the code uses and in lower case, a header the
\* code does not touch, and the caller's own content type in both spellings.
CallerHeaders ==
    { NoneDict, Some(<<>>),
      Some(<< <<UserAgentKey, "mine">> >>),
      Some(<< <<Lower(UserAgentKey), "mine">> >>),
      Some(<< <<AcceptKey, "application/json">> >>),
      Some(<< <<ContentTypeKey, "text/plain">> >>),
      Some(<< <<Lower(ContentTypeKey), "text/plain">> >>) }

\* The json_data argument of the calls made: absent, the empty mapping, a mapping.
CallerJson == {NoneJson, Some(PyDict({})), Some(PyDict({<<"a", 1>>}))}

\* The urllib.request.Request object: the headers it stores and its data.
NoReq == [headers |-> <<>>, data |-> NoneStr]

\* Lines 92-100: from the caller's headers (the mapping object) and json_data,
\* the mapping object as request() leaves it and the Request built.  With
\* "headers or {}" an absent or empty mapping is replaced by a new one; any other
\* is the caller's own object, which setdefault then writes to.
BuildRequest(h, j) ==
    LET own == h.some /\ h.val # <<>>
        h0 == IF own THEN h.val ELSE <<>>
        h1 == SetDefault(h0, UserAgentKey, USER_AGENT)
        h2 == IF j.some THEN SetDefault(h1, ContentTypeKey, "application/json") ELSE h1
    IN  [headers |-> IF own THEN Some(h2) ELSE h,
         req |-> [headers |-> AddHeaders(<<>>, h2),
                  data |-> IF j.some THEN Some(JsonDumps(j.val)) ELSE NoneStr]]

\* ------------------------------------------------------- get_reddit_json
DotJson == <<".", "j", "s", "o", "n">>
Slash == <<"/">>

\* Lines 187-194: the path made to start with "/", its trailing slashes
\* removed, and ".json" appended unless it ends with it.
NormalizePath(path) ==
    LET rooted == IF ~StartsWith(path, Slash) THEN Slash \o path ELSE path
        stripped == RStrip(rooted, "/")
    IN  IF ~EndsWith(stripped, DotJson) THEN stripped \o DotJson ELSE stripped

\* Line 196: url = f"https://www.reddit.com{path}?raw_json=1"
RedditUrl(path) == [site |-> "https://www.reddit.com", path |-> path, query |-> "raw_json=1"]

\* Lines 198-201.
RedditHeaders == << <<UserAgentKey, USER_AGENT>>, <<AcceptKey, "application/json">> >>

\* The pieces the paths are put together from, and the paths of up to n pieces.
Pieces == {Slash, <<"r">>, DotJson}
RECURSIVE Paths(_)
Paths(n) ==
    IF n = 0 THEN {<<>>} ELSE {<<>>} \cup {piece \o rest : piece \in Pieces, rest \in Paths(n - 1)}

\* No call of get_reddit_json.
NoReddit == [called |-> FALSE, path |-> <<>>, url |-> RedditUrl(<<>>)]

\* ------------------------------------------------------ dedupe_websearch
\* url_key = item.url.lower().rstrip("/"), websearch.py line 190.
\* UrlKey comparing urls as they are spelled, without lower().
UrlKeyCaseSensitive(url) == RStrip(url, "/")

UrlKey(url) == RStrip(Lower(url), "/")

\* The loop of dedupe_websearch, websearch.py lines 188-193, from the items not
\* yet visited, seen_urls and result.
RECURSIVE DedupeLoop(_, _, _)
DedupeLoop(items, seen_urls, res) ==
    IF items = <<>>
    THEN res
    ELSE LET item == Head(items)
             url_key == UrlKey(item.url)
         IN  IF url_key \notin seen_urls
             THEN DedupeLoop(Tail(items), seen_urls \cup {url_key}, Append(res, item))
             ELSE DedupeLoop(Tail(items), seen_urls, res)

\* dedupe_websearch(items), websearch.py lines 174-195.
DedupeWebsearch(items) == DedupeLoop(items, {}, <<>>)

\* The urls of the items: one page spelled in four ways, another page, and the
\* urls "/" and "".
Urls ==
    { <<"a">>, <<"A">>, <<"a", "/">>, <<"A", "/", "/">>, <<"b">>, <<"/">>, <<>> }

\* The lists of n items: an item is an object, told from the others by its
\* place in the list given, with a url.
ListsOfLen(n) == {[i \in 1..n |-> [id |-> i, url |-> urls[i]]] : urls \in [1..n -> Urls]}
ItemLists(n) == UNION {ListsOfLen(m) : m \in 0..n}

\* No call of dedupe_websearch.
NoDedupe == [called |-> FALSE, items |-> <<>>, result |-> <<>>]

\* Retry budgets a call is made with: the default, smaller ones, zero and a negative one.
Budgets == (0 - 1)..MaxRetries

VARIABLES
    calc,         \* a direct call of _get_retry_delay: its arguments and result
    pc,           \* "idle" before the call, "loop" at the head of the for loop, "done"
    retries,      \* the retries argument
    attempt,      \* the loop variable
    last_error,   \* <<>> for None, <<e>> for an HTTPError e
    result,       \* how the call ended: the value returned or the exception raised
    exit,         \* the statement the call ended at
    nAttempts,    \* urlopen calls made
    nSleeps,      \* time.sleep calls that returned
    lastSleep,    \* the last time.sleep call that returned: loop index and delay
    lastOutcome,  \* what the last urlopen attempt ended with
    seen,         \* the kinds of outcome, with their status codes, of the attempts made
    headers,      \* the mapping object the caller passes as headers, or None
    json_data,    \* the caller's json_data argument, or None
    passed,       \* headers and json_data as they were when the call was made
    req,          \* the urllib.request.Request built at line 100
    sent,         \* the Request the last urlopen call was made with
    reddit,       \* a call of get_reddit_json: its path argument and the url it requests
    parked,       \* the locals of a second call of request(), in another thread
    dedupe        \* a call of dedupe_websearch: its items argument and its result

reqVars ==
    <<pc, retries, attempt, last_error, result, exit, nAttempts, nSleeps, lastSleep,
      lastOutcome, seen, headers, json_data, passed, req, sent>>

vars == <<calc, reqVars, reddit, parked, dedupe>>

CalcIdle ==
    [called |-> FALSE, attempt |-> 0, is_rate_limit |-> FALSE, retry_after |-> None,
     k |-> 0, res |-> Returned(0)]

NoMessage == Msg("", 0, "")
NoResult ==
    [kind |-> "none", exc |-> "none", message |-> NoMessage, status_code |-> None,
     body |-> NoneStr, retry_after |-> None, value |-> PyDict({})]
NoOutcome ==
    [kind |-> "none", code |-> 0, body |-> NoneStr, raw |-> NoneStr, reason |-> ""]
NoSleep == [attempt |-> 0 - 1, delay |-> 0]
NoArgs == [headers |-> NoneDict, json_data |-> NoneJson]

\* The arguments and locals of a call of request() that has not begun.
IdleFrame ==
    [pc |-> "idle", retries |-> MAX_RETRIES, attempt |-> 0, last_error |-> <<>>,
     result |-> NoResult, exit |-> "pending", nAttempts |-> 0, nSleeps |-> 0,
     lastSleep |-> NoSleep, lastOutcome |-> NoOutcome, seen |-> {},
     headers |-> NoneDict, json_data |-> NoneJson, passed |-> NoArgs, req |-> NoReq,
     sent |-> NoReq]

\* The arguments and locals of the call of request() of the running thread.
Frame ==
    [pc |-> pc, retries |-> retries, attempt |-> attempt, last_error |-> last_error,
     result |-> result, exit |-> exit, nAttempts |-> nAttempts, nSleeps |-> nSleeps,
     lastSleep |-> lastSleep, lastOutcome |-> lastOutcome, seen |-> seen,
     headers |-> headers, json_data |-> json_data, passed |-> passed, req |-> req,
     sent |-> sent]

\* No call made yet: the locals of request() as they are before line 92, and no
\* second call either.
NoCall ==
    /\ parked = IdleFrame
    /\ pc = "idle"
    /\ retries = MAX_RETRIES
    /\ attempt = 0
    /\ last_error = <<>>
    /\ result = NoResult
    /\ exit = "pending"
    /\ nAttempts = 0
    /\ nSleeps = 0
    /\ lastSleep = NoSleep
    /\ lastOutcome = NoOutcome
    /\ seen = {}
    /\ passed = NoArgs
    /\ req = NoReq
    /\ sent = NoReq

\* The call to come passes no headers and no body, as get(url) does.
ReqIdle ==
    /\ NoCall
    /\ reddit = NoReddit
    /\ headers = NoneDict
    /\ json_data = NoneJson

\* return v
Return(v) == [NoResult EXCEPT !.kind = "return", !.value = v]
\* raise e, e an HTTPError
RaiseHTTPError(e) ==
    [NoResult EXCEPT !.kind = "raise", !.exc = "HTTPError", !.message = e.message,
                     !.status_code = e.status_code, !.body = e.body,
                     !.retry_after = e.retry_after]
\* an exception of another class leaving request()
RaiseOther(exc, text) ==
    [NoResult EXCEPT !.kind = "raise", !.exc = exc, !.message = Msg(text, 0, "")]

\* AfterLoop with the loop's fall-through returning an empty mapping when no
\* error was recorded.
AfterLoopSilent(le) ==
    IF le # <<>> THEN RaiseHTTPError(le[1]) ELSE Return(PyDict({}))

\* Lines 163-165, after the loop.
AfterLoop(le) ==
    IF le # <<>>
    THEN RaiseHTTPError(le[1])
    ELSE RaiseHTTPError(HTTPError(Msg("Request failed with no error details", 0, ""),
                                  None, NoneStr, None))

\* IsClientError with the lower bound off by one.
IsClientErrorOffByOne(code) == 400 < code /\ code < 500 /\ code # 429

\* Line 135: a client error (4xx) other than a rate limit.
IsClientError(code) == 400 <= code /\ code < 500 /\ code # 429

\* Lines 138, 146, 158: another iteration follows this one.
ShouldRetry(a, n) == a < n - 1

\* time.sleep(delay), which raises ValueError for a negative delay.
Sleep(delay) == IF delay < 0 THEN Raised("ValueError") ELSE Returned(delay)

\* The draws of random.random() in a call of _get_retry_delay: the function
\* returns before drawing when it has a hint.
Draws(retry_after) == IF retry_after.some THEN {0} ELSE 0..JitterSteps

\* The call ends: a return or a raise leaves the loop.
Finish(res, where) ==
    /\ pc' = "done"
    /\ result' = res
    /\ exit' = where
    /\ UNCHANGED <<attempt, nSleeps, lastSleep>>

\* RetryOrExhaust with the delay computed for the number of the attempt to come
\* (attempt + 1) in place of the index of the attempt that failed.
RetryOrExhaustOneBased(le, is_rate_limit, retry_after) ==
    /\ last_error' = <<le>>
    /\ IF ShouldRetry(attempt, retries)
       THEN \E k \in Draws(retry_after) :
            LET d == GetRetryDelay(attempt + 1, is_rate_limit, retry_after, k)
                slept == Sleep(d.delay)
            IN  IF d.exc # "none"
                THEN Finish(RaiseOther(d.exc, "int too large to convert to float"),
                            "delay_raised")
                ELSE IF slept.exc # "none"
                THEN Finish(RaiseOther(slept.exc, "sleep length must be non-negative"),
                            "sleep_raised")
                ELSE /\ pc' = "loop"
                     /\ attempt' = attempt + 1
                     /\ nSleeps' = nSleeps + 1
                     /\ lastSleep' = [attempt |-> attempt, delay |-> slept.delay]
                     /\ UNCHANGED <<result, exit>>
       ELSE Finish(AfterLoop(<<le>>), "exhausted")

\* Lines 138-142, 146-149, 158-161, and 163-165 when the loop ends: after a
\* retryable failure, sleep and go round again, or fall out of the loop.
RetryOrExhaust(le, is_rate_limit, retry_after) ==
    /\ last_error' = <<le>>
    /\ IF ShouldRetry(attempt, retries)
       THEN \E k \in Draws(retry_after) :
            LET d == GetRetryDelay(attempt, is_rate_limit, retry_after, k)
                slept == Sleep(d.delay)
            IN  IF d.exc # "none"
                THEN Finish(RaiseOther(d.exc, "int too large to convert to float"),
                            "delay_raised")
                ELSE IF slept.exc # "none"
                THEN Finish(RaiseOther(slept.exc, "sleep length must be non-negative"),
                            "sleep_raised")
                ELSE /\ pc' = "loop"
                     /\ attempt' = attempt + 1
                     /\ nSleeps' = nSleeps + 1
                     /\ lastSleep' = [attempt |-> attempt, delay |-> slept.delay]
                     /\ UNCHANGED <<result, exit>>
       ELSE Finish(AfterLoop(<<le>>), "exhausted")

\* OnHTTPError with the Retry-After hint used for a 429 only.
OnHTTPErrorHintFor429Only(code, body, retry_after_raw) ==
    LET retry_after == ParseRetryAfter(retry_after_raw)
        le == HTTPError(Msg("HTTP {code}: {reason}", code, Reason(code)),
                        Some(code), body, retry_after)
    IN  IF IsClientError(code)
        THEN /\ last_error' = <<le>>
             /\ Finish(RaiseHTTPError(le), "client_error")
        ELSE RetryOrExhaust(le, code = 429, IF code = 429 THEN retry_after ELSE None)

\* Lines 113-142: except urllib.error.HTTPError.
OnHTTPError(code, body, retry_after_raw) ==
    LET retry_after == ParseRetryAfter(retry_after_raw)
        le == HTTPError(Msg("HTTP {code}: {reason}", code, Reason(code)),
                        Some(code), body, retry_after)
    IN  IF IsClientError(code)
        THEN /\ last_error' = <<le>>
             /\ Finish(RaiseHTTPError(le), "client_error")
        ELSE RetryOrExhaust(le, code = 429, retry_after)

\* Lines 143-149: except urllib.error.URLError.
OnURLError(reason) ==
    RetryOrExhaust(HTTPError(Msg("URL Error: {reason}", 0, reason), None, NoneStr, None),
                   FALSE, None)

\* OnJSONDecodeError handled as the transport failures are: retried.
OnJSONDecodeErrorRetried(detail) ==
    RetryOrExhaust(HTTPError(Msg("Invalid JSON response: {e}", 0, detail),
                             None, NoneStr, None),
                   FALSE, None)

\* Lines 150-153: except json.JSONDecodeError.
OnJSONDecodeError(detail) ==
    LET le == HTTPError(Msg("Invalid JSON response: {e}", 0, detail), None, NoneStr, None)
    IN  /\ last_error' = <<le>>
        /\ Finish(RaiseHTTPError(le), "invalid_json")

\* OnOSError without the assignment to last_error: an earlier error is kept.
OnOSErrorStale(type) ==
    RetryOrExhaust(IF last_error # <<>>
                   THEN last_error[1]
                   ELSE HTTPError(Msg("Connection error: {type}: {e}", 0, type),
                                  None, NoneStr, None),
                   FALSE, None)

\* Lines 154-161: except (OSError, TimeoutError, ConnectionResetError).
OnOSError(type) ==
    RetryOrExhaust(HTTPError(Msg("Connection error: {type}: {e}", 0, type),
                             None, NoneStr, None),
                   FALSE, None)

\* What every attempt does first: one more urlopen call, and its outcome.
Attempted(outcome) ==
    /\ pc = "loop"
    /\ nAttempts' = nAttempts + 1
    /\ lastOutcome' = outcome
    /\ seen' = seen \cup {[kind |-> outcome.kind, code |-> outcome.code]}
    /\ sent' = req
    /\ UNCHANGED <<calc, retries, headers, json_data, passed, req, reddit, parked, dedupe>>

\* request(..., headers = h, json_data = j, retries = n), lines 92-106, up to the
\* first attempt; with an empty range(retries) the loop body never runs and
\* lines 163-165 end the call.
StartRequest(h, j, n) ==
    /\ pc = "idle"
    /\ retries' = n
    /\ passed' = [headers |-> h, json_data |-> j]
    /\ headers' = BuildRequest(h, j).headers
    /\ json_data' = j
    /\ req' = BuildRequest(h, j).req
    /\ last_error' = <<>>
    /\ IF n >= 1
       THEN /\ pc' = "loop"
            /\ attempt' = 0
            /\ UNCHANGED <<result, exit>>
       ELSE /\ pc' = "done"
            /\ result' = AfterLoop(<<>>)
            /\ exit' = "no_attempts"
            /\ UNCHANGED attempt
    /\ UNCHANGED <<calc, nAttempts, nSleeps, lastSleep, lastOutcome, seen, sent, parked,
                   dedupe>>

\* A call of request() with the caller's headers and json_data and a budget.
Request ==
    \E n \in Budgets :
        /\ StartRequest(headers, json_data, n)
        /\ UNCHANGED reddit

\* get_reddit_json(path), lines 187-203: the path normalized, the url built,
\* and get(url, headers=headers), which is request("GET", url, headers=headers)
\* with the default budget.
GetRedditJson ==
    /\ ~reddit.called
    /\ reddit' = [reddit EXCEPT !.called = TRUE,
                                !.url = RedditUrl(NormalizePath(reddit.path))]
    /\ StartRequest(Some(RedditHeaders), NoneJson, MAX_RETRIES)

\* An attempt that gets a 2xx response: lines 109-112, and 150-153 when
\* json.loads raises.
AttemptResponse ==
    \E body \in ResponseBodies :
        LET j == JsonLoads(body)
        IN  /\ Attempted([NoOutcome EXCEPT !.kind = "response", !.body = Some(body)])
            /\ IF j.exc = "none"
               THEN /\ Finish(Return(j.value), "returned")
                    /\ UNCHANGED last_error
               ELSE OnJSONDecodeError("Expecting value")

\* An attempt urlopen ends with urllib.error.HTTPError.
AttemptHTTPError ==
    \E code \in Statuses, body \in ErrorBodies, raw \in RetryAfterRaws :
        /\ Attempted([NoOutcome EXCEPT !.kind = "HTTPError", !.code = code,
                                       !.body = body, !.raw = raw,
                                       !.reason = Reason(code)])
        /\ OnHTTPError(code, body, raw)

\* An attempt that ends with a urllib.error.URLError that is no HTTPError.
AttemptURLError ==
    \E reason \in URLReasons :
        /\ Attempted([NoOutcome EXCEPT !.kind = "URLError", !.reason = reason])
        /\ OnURLError(reason)

\* An attempt that ends with an OSError that is no URLError.
AttemptOSError ==
    \E type \in OSErrorTypes :
        /\ Attempted([NoOutcome EXCEPT !.kind = "OSError", !.reason = type])
        /\ OnOSError(type)

\* An attempt that ends with an exception no except clause names: it leaves
\* request() as it is.
AttemptOtherException ==
    \E exc \in OtherExceptions :
        /\ Attempted([NoOutcome EXCEPT !.kind = "other", !.reason = exc])
        /\ Finish(RaiseOther(exc, exc), "uncaught")
        /\ UNCHANGED last_error

Init == ReqIdle /\ calc = CalcIdle /\ dedupe = NoDedupe

Next ==
    \/ Request
    \/ AttemptResponse
    \/ AttemptHTTPError
    \/ AttemptURLError
    \/ AttemptOSError
    \/ AttemptOtherException

Spec == Init /\ [][Next]_vars

\* Every call ends: an attempt and a wait each finish.
FairSpec == Spec /\ WF_vars(Next)

\* The arguments a direct call of _get_retry_delay is made with.
DelayArgs ==
    [attempt : 0..MaxAttempt, is_rate_limit : BOOLEAN, k : 0..JitterSteps,
     retry_after : {None} \cup {Some(v) : v \in HintValues}]

InitDelay ==
    /\ ReqIdle
    /\ dedupe = NoDedupe
    /\ \E args \in DelayArgs :
        calc = [called |-> FALSE, attempt |-> args.attempt,
                is_rate_limit |-> args.is_rate_limit, retry_after |-> args.retry_after,
                k |-> args.k, res |-> Returned(0)]

\* One direct call of _get_retry_delay with the arguments drawn.
DelayCall ==
    /\ ~calc.called
    /\ calc' = [calc EXCEPT !.called = TRUE,
                            !.res = GetRetryDelay(calc.attempt, calc.is_rate_limit,
                                                  calc.retry_after, calc.k)]
    /\ UNCHANGED <<reqVars, reddit, parked, dedupe>>

NextDelay == DelayCall

SpecDelay == InitDelay /\ [][NextDelay]_vars

\* Calls made with every headers and json_data argument.
InitCall ==
    /\ NoCall
    /\ dedupe = NoDedupe
    /\ reddit = NoReddit
    /\ calc = CalcIdle
    /\ headers \in CallerHeaders
    /\ json_data \in CallerJson

SpecCall == InitCall /\ [][Next]_vars

\* Calls of get_reddit_json with every path.
InitReddit ==
    /\ NoCall
    /\ dedupe = NoDedupe
    /\ calc = CalcIdle
    /\ headers = NoneDict
    /\ json_data = NoneJson
    /\ \E path \in Paths(MaxParts) : reddit = [NoReddit EXCEPT !.path = path]

NextReddit ==
    \/ GetRedditJson
    \/ AttemptResponse
    \/ AttemptHTTPError
    \/ AttemptURLError
    \/ AttemptOSError
    \/ AttemptOtherException

SpecReddit == InitReddit /\ [][NextReddit]_vars

\* --------------------------------------------------- dedupe_websearch
\* Calls of dedupe_websearch with every list of up to MaxItems items.
InitDedupe ==
    /\ ReqIdle
    /\ calc = CalcIdle
    /\ \E items \in ItemLists(MaxItems) : dedupe = [NoDedupe EXCEPT !.items = items]

\* One call of dedupe_websearch with the items drawn.
DedupeCall ==
    /\ ~dedupe.called
    /\ dedupe' = [dedupe EXCEPT !.called = TRUE, !.result = DedupeWebsearch(dedupe.items)]
    /\ UNCHANGED <<calc, reqVars, reddit, parked>>

NextDedupe == DedupeCall

SpecDedupe == InitDedupe /\ [][NextDedupe]_vars

\* ------------------------------------------------- two calls, two threads
\* A thread switch with attempt a variable of the module, shared by the calls:
\* it is not part of what is put aside and taken up.
SwitchSharedAttempt ==
    /\ parked' = Frame
    /\ pc' = parked.pc
    /\ retries' = parked.retries
    /\ last_error' = parked.last_error
    /\ result' = parked.result
    /\ exit' = parked.exit
    /\ nAttempts' = parked.nAttempts
    /\ nSleeps' = parked.nSleeps
    /\ lastSleep' = parked.lastSleep
    /\ lastOutcome' = parked.lastOutcome
    /\ seen' = parked.seen
    /\ headers' = parked.headers
    /\ json_data' = parked.json_data
    /\ passed' = parked.passed
    /\ req' = parked.req
    /\ sent' = parked.sent
    /\ UNCHANGED <<calc, reddit, dedupe, attempt>>

\* The running thread is suspended (in urlopen, in time.sleep, or between two
\* statements) and the other one runs: every argument and local of request()
\* belongs to its call, so the running call's are put aside and the other
\* call's taken up.  request() assigns to no variable of the module.
Switch ==
    /\ parked' = Frame
    /\ pc' = parked.pc
    /\ retries' = parked.retries
    /\ attempt' = parked.attempt
    /\ last_error' = parked.last_error
    /\ result' = parked.result
    /\ exit' = parked.exit
    /\ nAttempts' = parked.nAttempts
    /\ nSleeps' = parked.nSleeps
    /\ lastSleep' = parked.lastSleep
    /\ lastOutcome' = parked.lastOutcome
    /\ seen' = parked.seen
    /\ headers' = parked.headers
    /\ json_data' = parked.json_data
    /\ passed' = parked.passed
    /\ req' = parked.req
    /\ sent' = parked.sent
    /\ UNCHANGED <<calc, reddit, dedupe>>

\* The budgets and the outcomes of the attempts of the two calls: a success, a
\* client error, a rate limit without and with a hint, and a socket failure.
ParBudgets == {1, 2}
ParOutcomes ==
    { NoOutcome,
      [NoOutcome EXCEPT !.kind = "response", !.body = Some("{}")],
      [NoOutcome EXCEPT !.kind = "HTTPError", !.code = 404, !.reason = Reason(404)],
      [NoOutcome EXCEPT !.kind = "HTTPError", !.code = 429, !.reason = Reason(429)],
      [NoOutcome EXCEPT !.kind = "HTTPError", !.code = 429, !.reason = Reason(429),
                        !.raw = Some("30")],
      [NoOutcome EXCEPT !.kind = "OSError", !.reason = "TimeoutError"] }
ParInputs == retries \in ParBudgets /\ lastOutcome \in ParOutcomes

ParRequest == Request /\ ParInputs'
ParAttemptResponse == AttemptResponse /\ ParInputs'
ParAttemptHTTPError == AttemptHTTPError /\ ParInputs'
ParAttemptOSError == AttemptOSError /\ ParInputs'

NextPar ==
    \/ Switch
    \/ ParRequest
    \/ ParAttemptResponse
    \/ ParAttemptHTTPError
    \/ ParAttemptOSError

SpecPar == Init /\ [][NextPar]_vars

\* ------------------------------------------------------------------ claims
\* The last attempt was the one with loop index nAttempts - 1; no wait followed it
\* when the waits made are those after the attempts before it and the call is over.
NoWaitAfterLastAttempt ==
    /\ pc = "done"
    /\ nSleeps = nAttempts - 1
    /\ lastSleep.attempt < nAttempts - 1
    /\ ~ENABLED Next

\* The last attempt ended with an HTTP status in [400,500) other than 429.
ClientErrorOutcome ==
    /\ lastOutcome.kind = "HTTPError"
    /\ 400 <= lastOutcome.code /\ lastOutcome.code < 500 /\ lastOutcome.code # 429

\* C1: an attempt that ends with a status in [400,500) other than 429 ends the
\* call on that attempt with that error: no wait follows it and no further
\* attempt is made, whatever budget remains.
C1_ClientErrorIsTerminal ==
    ClientErrorOutcome =>
        /\ NoWaitAfterLastAttempt
        /\ result.kind = "raise" /\ result.exc = "HTTPError"
        /\ result.status_code = Some(lastOutcome.code)
        /\ result.message = Msg("HTTP {code}: {reason}", lastOutcome.code, lastOutcome.reason)
        /\ result.body = lastOutcome.body

\* C1 witness: a 404 on the second attempt of a call with a budget of 3.
C1_Witness ==
    /\ ClientErrorOutcome /\ lastOutcome.code = 404
    /\ nAttempts = 2 /\ retries = MAX_RETRIES
    /\ pc = "done" /\ result.status_code = Some(404)

\* The outcome is one of the retryable failures: 429, 5xx, or a transport failure.
RetryableFailure(o) ==
    \/ o.kind \in {"URLError", "OSError"}
    \/ o.kind = "HTTPError" /\ (o.code = 429 \/ (500 <= o.code /\ o.code < 600))

AllRetryableSoFar ==
    /\ nAttempts >= 1
    /\ \A o \in seen : RetryableFailure(o)

\* C2: while every attempt ends in a retryable failure, the loop retries after
\* attempt index i exactly when i + 1 < n, with one wait between consecutive
\* attempts and none after the last; so n attempts and n - 1 waits are made, and
\* the call then fails with the error of the loop.
C2_ExactlyBudgetAttempts ==
    AllRetryableSoFar =>
        /\ (pc = "loop") <=> (nAttempts < retries)
        /\ pc = "loop" => nSleeps = nAttempts /\ lastSleep.attempt = nAttempts - 1
        /\ pc = "done" =>
              /\ nAttempts = retries
              /\ nSleeps = retries - 1
              /\ result.kind = "raise" /\ exit = "exhausted"

\* The last attempt got a 2xx response whose body is no JSON.
MalformedOutcome ==
    /\ lastOutcome.kind = "response"
    /\ JsonLoads(lastOutcome.body.val).exc # "none"

\* C3: a 2xx response whose body fails to decode as JSON ends the call on that
\* attempt with an invalid-JSON error: no wait and no further attempt follow.
C3_MalformedIsTerminal ==
    MalformedOutcome =>
        /\ NoWaitAfterLastAttempt
        /\ result.kind = "raise" /\ result.exc = "HTTPError"
        /\ result.message.fmt = "Invalid JSON response: {e}"
        /\ result.status_code = None

\* C3 witness: a rate limit, then a 2xx response with a broken body, budget 3.
C3_Witness ==
    /\ MalformedOutcome
    /\ nAttempts = 2 /\ retries = MAX_RETRIES
    /\ \E o \in seen : o.code = 429
    /\ pc = "done" /\ exit = "invalid_json"

\* The error the last attempt's outcome is turned into.
ErrorOfOutcome(o) ==
    CASE o.kind = "HTTPError" ->
            HTTPError(Msg("HTTP {code}: {reason}", o.code, o.reason), Some(o.code),
                      o.body, ParseRetryAfter(o.raw))
      [] o.kind = "URLError" ->
            HTTPError(Msg("URL Error: {reason}", 0, o.reason), None, NoneStr, None)
      [] o.kind = "OSError" ->
            HTTPError(Msg("Connection error: {type}: {e}", 0, o.reason), None, NoneStr, None)
      [] OTHER -> HTTPError(NoMessage, None, NoneStr, None)

\* C4: when the budget is exhausted the error raised is the last attempt's:
\* its message, status code, body and retry-after hint, and nothing of an
\* earlier attempt's.
C4_LastErrorSurfaces ==
    exit = "exhausted" =>
        /\ result.kind = "raise" /\ result.exc = "HTTPError"
        /\ HTTPError(result.message, result.status_code, result.body, result.retry_after)
             = ErrorOfOutcome(lastOutcome)

\* C4 witness: a 429 with a hint of 30 s (the wait made after it), then a socket
\* failure on the last attempt: the error raised has no status code and no hint.
C4_Witness ==
    /\ exit = "exhausted"
    /\ nAttempts = 2 /\ lastOutcome.kind = "OSError"
    /\ \E o \in seen : o.code = 429
    /\ lastSleep = [attempt |-> 0, delay |-> Sec(30)]
    /\ result.status_code = None /\ result.retry_after = None

\* A call that is over returned the parsed value of a successful last attempt,
\* or raised an error that carries a message.
EndedWithValueOrError ==
    \/ /\ result.kind = "return"
       /\ nAttempts >= 1
       /\ lastOutcome.kind = "response"
       /\ JsonLoads(lastOutcome.body.val) = [exc |-> "none", value |-> result.value]
    \/ /\ result.kind = "raise"
       /\ result.exc # "none"
       /\ result.message.fmt # ""

C5_Safety ==
    /\ nAttempts <= Max(retries, 0)
    /\ pc = "done" => EndedWithValueOrError
    /\ pc # "done" => result.kind = "none"

\* C5: for every budget, zero and negative ones too, a call ends after at most
\* max(budget, 0) attempts, and ends in one of two ways: it returns the parsed
\* value of a successful attempt, or it raises an error carrying a message.
C5_TerminatesWithValueOrError == []C5_Safety /\ <>(pc = "done")

\* C5 witness: a call with a negative budget is over, with no attempt made and
\* an error raised.
C5_Witness ==
    /\ pc = "done" /\ retries < 0
    /\ nAttempts = 0
    /\ result.kind = "raise" /\ result.message.fmt = "Request failed with no error details"

\* C6: with a server hint h, _get_retry_delay returns exactly
\* min(h, RETRY_MAX_DELAY), for every attempt index, both values of
\* is_rate_limit and every random draw: no jitter is added.
C6_HintIsCappedExactly ==
    (calc.called /\ calc.retry_after.some) =>
        calc.res = Returned(Min(calc.retry_after.val, Sec(RETRY_MAX_DELAY)))

\* C6 witness: a hint of 120 s at attempt 10 of a rate limit, largest draw:
\* exactly 60 s are returned.
C6_Witness ==
    /\ calc.called /\ calc.retry_after = Some(Sec(120))
    /\ calc.attempt = 10 /\ calc.is_rate_limit /\ calc.k = JitterSteps
    /\ calc.res = Returned(Sec(RETRY_MAX_DELAY))

\* C7: every delay request() waits is non-negative: a Retry-After header counts
\* as a hint only when it parses as a non-negative number of seconds, and an
\* absent, unparsable or negative value is treated as no hint.
C7_HintOnlyWhenNonNegative ==
    /\ lastSleep.delay >= 0
    /\ exit # "sleep_raised"
    /\ lastOutcome.kind = "HTTPError" =>
          LET f == Float(lastOutcome.raw.val)
          IN  last_error[1].retry_after.some
                <=> (lastOutcome.raw.some /\ f.exc = "none" /\ f.delay >= 0)

\* min(base * 2^a, RETRY_MAX_DELAY) in ticks; 2^6 is above the ceiling, so from
\* a = 6 on the minimum is the ceiling for any base of a second or more.
ClaimedCapped(base, a) ==
    IF a >= 6
    THEN Sec(RETRY_MAX_DELAY)
    ELSE Min(Sec(base) * 2^a, Sec(RETRY_MAX_DELAY))

CalcBase == IF calc.is_rate_limit THEN RETRY_429_BASE_DELAY ELSE RETRY_BASE_DELAY

\* C8: with no hint and a draw of 0, _get_retry_delay returns
\* min(base * 2^a, RETRY_MAX_DELAY) for every attempt index a >= 0, base 5 for a
\* rate limit and 2 otherwise; the value does not decrease with a and never
\* exceeds the ceiling, however large a is.
C8_CappedExponential ==
    (calc.called /\ ~calc.retry_after.some /\ calc.k = 0) =>
        /\ calc.res = Returned(ClaimedCapped(CalcBase, calc.attempt))
        /\ calc.res.delay <= Sec(RETRY_MAX_DELAY)
        /\ calc.attempt >= 1 =>
              GetRetryDelay(calc.attempt - 1, calc.is_rate_limit, None, 0).delay
                <= calc.res.delay

\* The un-jittered delay of the other error class for the same attempt index.
NormalDelay == GetRetryDelay(calc.attempt, FALSE, None, 0)

\* C9 as stated: for every a >= 0 with no hint, the un-jittered delay of a rate
\* limit is strictly greater than the un-jittered delay of another error (here
\* for the attempt indices at which a delay is returned at all).
C9_StrictlyGreater ==
    (calc.called /\ ~calc.retry_after.some /\ calc.k = 0 /\ calc.is_rate_limit
       /\ calc.res.exc = "none") =>
        calc.res.delay > NormalDelay.delay

\* C9 amended: for attempt indices 0..4 the un-jittered delay of a rate limit is
\* strictly greater than that of another error; from a = 5 on the two calls end
\* alike, with the ceiling whenever a delay is returned.
C9_StrictlyGreaterBelowCeiling ==
    (calc.called /\ ~calc.retry_after.some /\ calc.k = 0 /\ calc.is_rate_limit) =>
        IF calc.attempt <= 4
        THEN /\ calc.res.exc = "none" /\ NormalDelay.exc = "none"
             /\ calc.res.delay > NormalDelay.delay
        ELSE /\ calc.res = NormalDelay
             /\ calc.res.exc = "none" => calc.res.delay = Sec(RETRY_MAX_DELAY)

\* C9 witness: at attempt 5 both error classes wait the 60 s ceiling.
C9_Witness ==
    /\ calc.called /\ ~calc.retry_after.some /\ calc.k = 0 /\ calc.is_rate_limit
    /\ calc.attempt = 5
    /\ calc.res = Returned(Sec(RETRY_MAX_DELAY))
    /\ NormalDelay = Returned(Sec(RETRY_MAX_DELAY))

\* C10: with no hint, for every attempt index, error class and draw r, the
\* result is capped * (1 + 0.25 * r) with capped = min(base * 2^a, 60): jitter is
\* only added, at most 25% of capped, and the result never exceeds 75 s.
C10_JitterBounds ==
    (calc.called /\ ~calc.retry_after.some) =>
        LET capped == ClaimedCapped(CalcBase, calc.attempt)
        IN  /\ calc.res.exc = "none"
            /\ calc.res.delay * (JitterDen * JitterSteps)
                 = capped * (JitterDen * JitterSteps + calc.k)
            /\ capped <= calc.res.delay
            /\ calc.res.delay * JitterDen <= capped * (JitterDen + 1)
            /\ calc.res.delay <= Sec(75)
\* The value the body of the last response stands for: the empty mapping for an
\* empty body and for "{}", the mapping with its one entry for {"a": 1}.
ParsedBody ==
    CASE lastOutcome.body = Some("") -> PyDict({})
      [] lastOutcome.body = Some("{}") -> PyDict({})
      [] lastOutcome.body = Some("{\"a\": 1}") -> PyDict({<<"a", 1>>})
      [] OTHER -> PyDict({<<"not", "JSON">>})

\* The last attempt got a 2xx response whose body is empty or is JSON.
SuccessOutcome ==
    /\ lastOutcome.kind = "response"
    /\ lastOutcome.body \in {Some(""), Some("{}"), Some("{\"a\": 1}")}

\* C11: a 2xx response ends the call on that attempt with the parsed body as the
\* value returned, with no wait after it and no further attempt, whatever
\* retryable failures came before; an empty body gives the empty mapping and no
\* error.
C11_SuccessIsTerminal ==
    SuccessOutcome =>
        /\ NoWaitAfterLastAttempt
        /\ exit = "returned"
        /\ result = Return(ParsedBody)
        /\ lastOutcome.body = Some("") => result = Return(PyDict({}))

\* C11 witness: a 500 and a socket failure, then a 2xx response with an empty
\* body on the third attempt: the empty mapping is returned after two waits.
C11_Witness ==
    /\ SuccessOutcome /\ lastOutcome.body = Some("")
    /\ nAttempts = 3 /\ nSleeps = 2
    /\ \E o \in seen : o.kind = "HTTPError" /\ o.code = 500
    /\ \E o \in seen : o.kind = "OSError"
    /\ pc = "done" /\ result = Return(PyDict({}))

\* Header names are compared without regard to case, as HTTP compares them.
SameName(a, b) == Lower(a) = Lower(b)
HasHeader(d, name) == \E i \in 1..Len(d) : SameName(d[i][1], name)
HeaderValues(d, name) == {d[i][2] : i \in {j \in 1..Len(d) : SameName(d[j][1], name)}}

\* The caller passed a header of this name.
CallerSupplied(name) == passed.headers.some /\ HasHeader(passed.headers.val, name)

\* C12: the headers of every attempt have a client-agent entry, the caller's
\* value when the caller supplied one and USER_AGENT otherwise; they have a JSON
\* content-type entry whenever json_data is not None, the empty mapping
\* included; and without a body they have no content-type the caller did not
\* supply.
C12_HeadersSent ==
    nAttempts >= 1 =>
        /\ sent = req
        /\ HeaderValues(sent.headers, UserAgentKey) =
              IF CallerSupplied(UserAgentKey)
              THEN HeaderValues(passed.headers.val, UserAgentKey)
              ELSE {USER_AGENT}
        /\ passed.json_data.some =>
              HeaderValues(sent.headers, ContentTypeKey) = {"application/json"}
        /\ ~passed.json_data.some =>
              (HasHeader(sent.headers, ContentTypeKey) => CallerSupplied(ContentTypeKey))

\* C16: a call that is over has left the caller's request description as it
\* was: the headers mapping and the JSON body equal what was passed, so the
\* mapping carries no entry added by the call.
C16_ArgumentsUnchanged ==
    pc = "done" =>
        /\ headers = passed.headers
        /\ json_data = passed.json_data

\* The path of the url get_reddit_json requests.
Normalized == reddit.url.path

\* C13: for every path given to get_reddit_json, the normalized path begins
\* with "/", does not end with "/", ends with ".json", which is appended only
\* when the path without its trailing slashes does not end with it already, and
\* normalizing the normalized path gives it back.
C13_PathNormalized ==
    reddit.called =>
        /\ StartsWith(Normalized, Slash)
        /\ ~EndsWith(Normalized, Slash)
        /\ EndsWith(Normalized, DotJson)
        /\ EndsWith(RStrip(reddit.path, "/"), DotJson) =>
              Len(Normalized) <= Len(reddit.path) + 1
        /\ NormalizePath(Normalized) = Normalized

\* The last attempt failed with neither an HTTP status error nor a JSON decode
\* failure.
OtherFailure == lastOutcome.kind \in {"URLError", "OSError", "other"}

\* C14: every failure of an attempt is classified: one that is neither an HTTP
\* status error nor a JSON decode failure is retried while budget remains, and
\* the call ends with an HTTPError for it when the budget is exhausted; no
\* exception of an attempt leaves request() as it is.
C14_EveryFailureClassified ==
    /\ exit # "uncaught"
    /\ (OtherFailure /\ nAttempts < retries) => pc = "loop"
    /\ (OtherFailure /\ pc = "done") =>
          /\ nAttempts = retries
          /\ result.kind = "raise" /\ result.exc = "HTTPError"

\* A wait has just been made: the call is at the head of the loop again, and
\* lastOutcome is the failure the wait followed.
JustWaited == pc = "loop" /\ nSleeps >= 1

\* The hint of the failure the last wait followed.
HintOfLastOutcome ==
    IF lastOutcome.kind = "HTTPError" THEN ParseRetryAfter(lastOutcome.raw) ELSE None

\* The base of the failure the last wait followed.
BaseOfLastOutcome ==
    IF lastOutcome.kind = "HTTPError" /\ lastOutcome.code = 429
    THEN RETRY_429_BASE_DELAY
    ELSE RETRY_BASE_DELAY

\* The delays of a failure without a hint at attempt index a, one for each draw.
BackoffDelays(base, a) ==
    {ClaimedCapped(base, a) + Jitter(ClaimedCapped(base, a), k) : k \in 0..JitterSteps}

\* C15: the wait after the failed attempt with index k is computed with
\* attempt = k, and k counts every failed attempt of the call whatever its error
\* class: attempt 0 for the first wait, and base * 2^1 for a failure without a
\* hint at attempt 1 whatever failed at attempt 0.
C15_DelayUsesAttemptIndex ==
    JustWaited =>
        /\ nSleeps = nAttempts
        /\ lastSleep.attempt = nAttempts - 1
        /\ attempt = nAttempts
        /\ ~HintOfLastOutcome.some =>
              lastSleep.delay \in BackoffDelays(BaseOfLastOutcome, nAttempts - 1)

\* C15 witness: a socket failure at attempt 0, then a 429 without a hint at
\* attempt 1: the wait after it is 5 * 2^1 = 10 s with a draw of 0.
C15_Witness ==
    /\ JustWaited /\ nAttempts = 2
    /\ seen = {[kind |-> "OSError", code |-> 0], [kind |-> "HTTPError", code |-> 429]}
    /\ lastOutcome.kind = "HTTPError" /\ lastOutcome.code = 429 /\ lastOutcome.raw = NoneStr
    /\ lastSleep = [attempt |-> 1, delay |-> Sec(10)]

\* The last attempt ended with an HTTP status that is retried and is no 429.
RetryableNon429 ==
    /\ lastOutcome.kind = "HTTPError"
    /\ lastOutcome.code # 429
    /\ ~(400 <= lastOutcome.code /\ lastOutcome.code < 500)

\* The number the Retry-After header of the last attempt parses as, if any.
ParsableHint ==
    /\ lastOutcome.raw.some
    /\ Float(lastOutcome.raw.val).exc = "none"

HintSeconds == Float(lastOutcome.raw.val).delay

RanAsAlone(f) ==
    /\ f.nAttempts <= Max(f.retries, 0)
    /\ f.pc = "idle" => f = IdleFrame
    /\ f.pc = "loop" =>
          /\ f.attempt = f.nAttempts /\ f.nSleeps = f.nAttempts
          /\ f.result = NoResult
          /\ f.nAttempts = 0 => f.last_error = <<>> /\ f.lastSleep = NoSleep
          /\ f.nAttempts >= 1 =>
                /\ f.last_error = <<ErrorOfOutcome(f.lastOutcome)>>
                /\ f.lastSleep.attempt = f.nAttempts - 1
                /\ f.lastSleep.delay \in
                      IF f.lastOutcome.raw = Some("30")
                      THEN {Sec(30)}
                      ELSE BackoffDelays(IF f.lastOutcome.code = 429
                                         THEN RETRY_429_BASE_DELAY
                                         ELSE RETRY_BASE_DELAY,
                                         f.nAttempts - 1)
    /\ f.pc = "done" =>
          /\ f.attempt = f.nAttempts - 1 /\ f.nSleeps = f.nAttempts - 1
          /\ f.nSleeps >= 1 => f.lastSleep.attempt = f.nSleeps - 1
          /\ f.result =
                IF f.lastOutcome.kind = "response"
                THEN Return(PyDict({}))
                ELSE RaiseHTTPError(ErrorOfOutcome(f.lastOutcome))
          /\ f.lastOutcome.kind \in {"response"} \/ f.lastOutcome.code = 404
                \/ f.nAttempts = f.retries

\* C17: with two calls of request() interleaved in any way, each call's
\* attempts, waits, attempt index for each delay and result are those of the
\* call run alone on its own outcomes, and a step of one call leaves the other
\* call's state as it is.
C17_CallsAreIndependent ==
    /\ [](RanAsAlone(Frame) /\ RanAsAlone(parked))
    /\ [][parked' = parked \/ (parked' = Frame /\ Frame' = parked)]_vars

\* C17 witness: both calls are between their first and second attempt, one
\* after a 429 and a wait of 5 s, the other after a socket failure and a wait of
\* 2 s.
C17_Witness ==
    /\ pc = "loop" /\ nAttempts = 1 /\ attempt = 1
    /\ lastOutcome.code = 429 /\ lastSleep = [attempt |-> 0, delay |-> Sec(5)]
    /\ parked.pc = "loop" /\ parked.nAttempts = 1 /\ parked.attempt = 1
    /\ parked.lastOutcome.kind = "OSError"
    /\ parked.lastSleep = [attempt |-> 0, delay |-> Sec(2)]

\* The key of a url as the claim words it: the url in lower case, up to its
\* last character that is no "/".
ClaimedKey(url) ==
    LET low == Lower(url)
        keep == {i \in 1..Len(low) : low[i] # "/"}
    IN  IF keep = {} THEN <<>> ELSE SubSeq(low, 1, CHOOSE i \in keep : \A j \in keep : j <= i)

\* C19: dedupe_websearch returns the items that are the first of their url key
\* in the list given (the url in lower case without its trailing slashes), in
\* the order given: no two items returned share a key, every key of the list is
\* the key of an item returned, and the result deduplicated again is the result.
C19_DedupeKeepsFirstPerKey ==
    dedupe.called =>
        LET given == dedupe.items
            out == dedupe.result
            First(i) == \A j \in 1..(i - 1) : ClaimedKey(given[j].url) # ClaimedKey(given[i].url)
        IN  /\ \A n \in 1..Len(out) : out[n] = given[out[n].id]
            /\ \A m, n \in 1..Len(out) : m < n => out[m].id < out[n].id
            /\ \A i \in 1..Len(given) : First(i) <=> (\E n \in 1..Len(out) : out[n].id = i)
            /\ \A m, n \in 1..Len(out) :
                  m # n => ClaimedKey(out[m].url) # ClaimedKey(out[n].url)
            /\ {ClaimedKey(given[i].url) : i \in 1..Len(given)}
                  = {ClaimedKey(out[n].url) : n \in 1..Len(out)}
            /\ DedupeWebsearch(out) = out

\* C19 witness: of "A//", "b" and "a", the third has the key of the first and
\* is dropped.
C19_Witness ==
    /\ dedupe.called
    /\ Len(dedupe.items) = 3
    /\ dedupe.items[1].url = <<"A", "/", "/">> /\ dedupe.items[3].url = <<"a">>
    /\ dedupe.result = <<[id |-> 1, url |-> <<"A", "/", "/">>], [id |-> 2, url |-> <<"b">>]>>

====
